---- MODULE Spec2Model ----
(***************************************************************************)
(* stayreel: the in-memory repository (MemStorage, src/storage.ts) and the *)
(* route handlers that call it (src/unnamed/part_000, the routes module).  *)
(*                                                                         *)
(* Strings that the code transforms (hotel names, locations, the limit     *)
(* query parameter) are sequences of ASCII character codes.  A JavaScript  *)
(* Map is a sequence of entries in insertion order.  A JavaScript object   *)
(* is a record; the object spread {...a, k: v} is Spread.  A Date is the   *)
(* reading of the variable clock.  A number that results from a division   *)
(* is a Double: the quotient rounded to 53 significant bits.               *)
(***************************************************************************)
EXTENDS Integers, Sequences, FiniteSets, TLC

VARIABLES
    users,            \* Map<string, User>
    hotels,           \* Map<number, Hotel>
    reviews,          \* Map<number, Review>
    hotelIdCounter,
    reviewIdCounter,
    clock,            \* what new Date() reads
    call,             \* the last completed call or response: operation, arguments, result
    inflight          \* per request slot: where its POST /api/hotels handler is

store == <<users, hotels, reviews, hotelIdCounter, reviewIdCounter>>
vars == <<users, hotels, reviews, hotelIdCounter, reviewIdCounter, clock, call, inflight>>

----------------------------------------------------------------------------
(* Bounds of the model *)

MaxHotels == 4       \* createHotel calls
MaxReviews == 3      \* createReview calls
MaxEntities == 5     \* createHotel and createReview calls together
MaxClock == 2        \* readings of the clock: 0..MaxClock

----------------------------------------------------------------------------
(* Generic JavaScript values *)

Range(s) == {s[i] : i \in DOMAIN s}

Min(a, b) == IF a < b THEN a ELSE b

Max(a, b) == IF a > b THEN a ELSE b

\* {...a, ...b}: the keys of both, b's value where both have the key
Spread(a, b) == [k \in DOMAIN a \cup DOMAIN b |-> IF k \in DOMAIN b THEN b[k] ELSE a[k]]

\* Map.prototype.has / get / set / values
MapHas(m, k) == \E i \in DOMAIN m : m[i].key = k

MapIndex(m, k) == CHOOSE i \in DOMAIN m : m[i].key = k

MapGet(m, k) == m[MapIndex(m, k)].value

MapSet(m, k, v) ==
    IF MapHas(m, k)
    THEN [m EXCEPT ![MapIndex(m, k)] = [key |-> k, value |-> v]]
    ELSE Append(m, [key |-> k, value |-> v])

MapValues(m) == [i \in DOMAIN m |-> m[i].value]

\* Array.prototype.sort((a, b) => key(b) - key(a)), keys[i] being the key of s[i]
\* as a fraction [num, den]: the sort is stable, so an element moves in front of
\* exactly those whose key is strictly less than its own.  The result is the
\* order of the indexes of s.
KeyLess(a, b) == a.num * b.den < b.num * a.den

InsertSorted(x, order, keys) ==
    LET p == IF \E j \in DOMAIN order : KeyLess(keys[order[j]], keys[x])
             THEN CHOOSE j \in DOMAIN order :
                     /\ KeyLess(keys[order[j]], keys[x])
                     /\ \A i \in 1..(j - 1) : ~KeyLess(keys[order[i]], keys[x])
             ELSE Len(order) + 1
    IN SubSeq(order, 1, p - 1) \o <<x>> \o SubSeq(order, p, Len(order))

SortDescending(s, keys) ==
    LET S[i \in 0..Len(s)] ==
            IF i = 0 THEN <<>> ELSE InsertSorted(i, S[i - 1], keys)
    IN [j \in DOMAIN s |-> s[S[Len(s)][j]]]

\* the key of an integer
Whole(n) == [num |-> n, den |-> 1]

\* A number argument: an integer, NaN (what parseInt gives for no digits) or
\* undefined (the argument left out)
Num(n) == [kind |-> "int", v |-> n]

NaN == [kind |-> "NaN", v |-> 0]

Undefined == [kind |-> "undefined", v |-> 0]

\* Array.prototype.slice(0, end): a negative end counts from the back,
\* NaN is 0, an absent end is the length
Slice(s, end) ==
    LET len == Len(s)
        final == IF end.kind = "undefined" THEN len
                 ELSE IF end.kind = "NaN" THEN 0
                 ELSE IF end.v < 0 THEN Max(len + end.v, 0)
                 ELSE Min(end.v, len)
    IN SubSeq(s, 1, final)

\* String.prototype.toLowerCase on ASCII: A-Z (65..90) become a-z
toLowerCase(s) == [i \in DOMAIN s |-> IF s[i] \in 65..90 THEN s[i] + 32 ELSE s[i]]

----------------------------------------------------------------------------
(* Numbers: the quotient of two integers as an IEEE-754 double.            *)
(* A Double is [num, den, err]: num/den in lowest terms is the quotient    *)
(* asked for, and the double is (num * 2^k + err) / (den * 2^k), where k   *)
(* scales the quotient to MantissaBits bits and err is what rounding to    *)
(* the nearest integer mantissa adds.  err = 0 iff the quotient is exact.  *)

MantissaBits == 53

RECURSIVE Gcd(_, _)
Gcd(a, b) == IF b = 0 THEN a ELSE Gcd(b, a % b)

\* the g with 2^g <= s/n < 2^(g+1), for s > 0 and n > 0
RECURSIVE Log2Floor(_, _)
Log2Floor(s, n) ==
    IF s < n THEN Log2Floor(2 * s, n) - 1
    ELSE IF s < 2 * n THEN 0
    ELSE 1 + Log2Floor(s, 2 * n)

RECURSIVE Pow2Mod(_, _)
Pow2Mod(k, n) ==
    IF k = 0 THEN 1 % n
    ELSE LET h == Pow2Mod(k \div 2, n)
         IN (h * h * (IF k % 2 = 1 THEN 2 ELSE 1)) % n

Double(s, n) ==
    LET g == Gcd(s, n)
        a == s \div g
        b == n \div g
        k == (MantissaBits - 1) - (IF a > 0 THEN Log2Floor(a, b) ELSE 0)
        t == (a * Pow2Mod(k, b)) % b
    IN [num |-> a, den |-> b, err |-> IF 2 * t < b THEN 0 - t ELSE b - t]

\* Doubles of small quotients compare as the quotients do (KeyLess): distinct
\* quotients are further apart than the rounding moves them.

----------------------------------------------------------------------------
(* MemStorage: the operations as functions of the store.  A result is      *)
(* [ok |-> TRUE, val |-> v] or, for a thrown Error, [ok |-> FALSE,         *)
(* error |-> message].  An optional value (T | undefined) is a sequence of *)
(* no or one element.                                                      *)

Ok(v) == [ok |-> TRUE, val |-> v]

\* throw new Error(`User ${userId} not found`) / (`Hotel ${hotelId} not found`)
ThrowUser(userId) == [ok |-> FALSE, error |-> "User not found", userId |-> userId, hotelId |-> 0]

ThrowHotel(hotelId) == [ok |-> FALSE, error |-> "Hotel not found", userId |-> "", hotelId |-> hotelId]

getUser(us, id) == IF MapHas(us, id) THEN <<MapGet(us, id)>> ELSE <<>>

\* upsertUser with the payload spread last: the payload's own dates win
upsertUserValuePayloadLast(us, userData, now1, now2) ==
    Spread([createdAt |-> IF MapHas(us, userData.id)
                          THEN MapGet(us, userData.id).createdAt
                          ELSE now1,
            updatedAt |-> now2],
           userData)

\* the user upsertUser stores and returns; now1 and now2 are its two new Date()
upsertUserValue(us, userData, now1, now2) ==
    Spread(userData,
           [createdAt |-> IF MapHas(us, userData.id)
                          THEN MapGet(us, userData.id).createdAt
                          ELSE now1,
            updatedAt |-> now2])

getHotels(hs) == MapValues(hs)

getHotel(hs, id) == IF MapHas(hs, id) THEN <<MapGet(hs, id)>> ELSE <<>>

\* getHotelByName comparing the strings as given
getHotelByNameExactCase(hs, name, location) ==
    LET found == SelectSeq(MapValues(hs),
                        LAMBDA hotel : hotel.name = name /\ hotel.location = location)
    IN IF found = <<>> THEN <<>> ELSE <<Head(found)>>

\* getHotelByName lowering the location asked for but not the stored one
getHotelByNameStoredLocationAsIs(hs, name, location) ==
    LET found == SelectSeq(MapValues(hs),
                        LAMBDA hotel : /\ toLowerCase(hotel.name) = toLowerCase(name)
                                       /\ hotel.location = toLowerCase(location))
    IN IF found = <<>> THEN <<>> ELSE <<Head(found)>>

\* Array.prototype.find: the first match, if any
getHotelByName(hs, name, location) ==
    LET found == SelectSeq(MapValues(hs),
                        LAMBDA hotel : /\ toLowerCase(hotel.name) = toLowerCase(name)
                                       /\ toLowerCase(hotel.location) = toLowerCase(location))
    IN IF found = <<>> THEN <<>> ELSE <<Head(found)>>

\* the hotel createHotel stores under id and returns
createHotelValue(hotelData, id, now) == Spread(hotelData, [id |-> id, createdAt |-> now])

getReviews(rs) == MapValues(rs)

\* the first index at which a pass throws, 0 if none
FirstFailure(results) ==
    IF \E i \in DOMAIN results : ~results[i].ok
    THEN CHOOSE i \in DOMAIN results :
            ~results[i].ok /\ \A j \in 1..(i - 1) : results[j].ok
    ELSE 0

\* a loop, or a map, whose passes each give a value or throw:
\* the first error thrown, or the values of all the passes
AllOrFirstError(results) ==
    LET bad == FirstFailure(results)
    IN IF bad # 0 THEN results[bad] ELSE Ok([i \in DOMAIN results |-> results[i].val])

\* .filter(review => review.hotelId === hotelId)
reviewsOfHotel(rs, hotelId) ==
    SelectSeq(MapValues(rs), LAMBDA review : review.hotelId = hotelId)

\* .sort((a, b) => b.rating - a.rating)
sortByRating(s) == SortDescending(s, [i \in DOMAIN s |-> Whole(s[i].rating)])

\* {...review, user}, or the throw when the user is not stored
withUser(us, review) ==
    IF ~MapHas(us, review.userId)
    THEN ThrowUser(review.userId)
    ELSE Ok(Spread(review, [user |-> MapGet(us, review.userId)]))

withUsers(us, s) == [i \in DOMAIN s |-> withUser(us, s[i])]

\* getReviewsByHotel leaving out the reviews whose user is not stored
getReviewsByHotelSkipping(us, rs, hotelId) ==
    AllOrFirstError(withUsers(us, SelectSeq(sortByRating(reviewsOfHotel(rs, hotelId)),
                                            LAMBDA review : MapHas(us, review.userId))))

getReviewsByHotel(us, rs, hotelId) ==
    AllOrFirstError(withUsers(us, sortByRating(reviewsOfHotel(rs, hotelId))))

\* the running sum of a loop or a reduce over a sequence of numbers, from 0
RECURSIVE SumOf(_)
SumOf(s) == IF s = <<>> THEN 0 ELSE SumOf(SubSeq(s, 1, Len(s) - 1)) + s[Len(s)]

SumRatings(s) == SumOf([i \in DOMAIN s |-> s[i].rating])

\* the average as an integer division
averageRatingTruncated(hotelReviews) ==
    IF Len(hotelReviews) > 0
    THEN Double(SumRatings(hotelReviews) \div Len(hotelReviews), 1)
    ELSE Double(0, 1)

\* hotelReviews.length > 0 ? reduce(sum + rating, 0) / length : 0
averageRatingOf(hotelReviews) ==
    IF Len(hotelReviews) > 0
    THEN Double(SumRatings(hotelReviews), Len(hotelReviews))
    ELSE Double(0, 1)

\* {...hotel, reviews, averageRating, reviewCount}
HotelWithReviewsValue(hotel, hotelReviews) ==
    Spread(hotel, [reviews |-> hotelReviews,
                   averageRating |-> averageRatingOf(hotelReviews),
                   reviewCount |-> Len(hotelReviews)])

\* the hotel's record once its reviews are there, or the error they threw
HotelWithReviewsOrError(hotel, hotelReviews) ==
    IF hotelReviews.ok THEN Ok(HotelWithReviewsValue(hotel, hotelReviews.val))
    ELSE hotelReviews

\* the loop body shared by the three hydrating reads: one hotel's record, or the error
hydrateHotel(us, rs, hotel) ==
    HotelWithReviewsOrError(hotel, getReviewsByHotel(us, rs, hotel.id))

\* for (const hotel of hotelList) { ... push({...hotel, reviews, ...}) }
hydrateAll(us, rs, hotelList) ==
    AllOrFirstError([i \in DOMAIN hotelList |-> hydrateHotel(us, rs, hotelList[i])])

getHotelsWithReviews(us, hs, rs) == hydrateAll(us, rs, getHotels(hs))

\* a result as an optional value
Defined(result) == IF result.ok THEN Ok(<<result.val>>) ELSE result

getHotelWithReviews(us, hs, rs, id) ==
    IF ~MapHas(hs, id) THEN Ok(<<>>)
    ELSE Defined(hydrateHotel(us, rs, MapGet(hs, id)))

\* limit: number = 10
DefaultLimit == 10

LimitOrDefault(limit) == IF limit.kind = "undefined" THEN Num(DefaultLimit) ELSE limit

\* {...review, user, hotel}, or the throw when the user or the hotel is not stored
withUserAndHotel(us, hs, review) ==
    IF ~MapHas(us, review.userId) THEN ThrowUser(review.userId)
    ELSE IF ~MapHas(hs, review.hotelId) THEN ThrowHotel(review.hotelId)
    ELSE Ok(Spread(review, [user |-> MapGet(us, review.userId),
                            hotel |-> MapGet(hs, review.hotelId)]))

withUsersAndHotels(us, hs, s) == [i \in DOMAIN s |-> withUserAndHotel(us, hs, s[i])]

getTopReviews(us, hs, rs, limit) ==
    AllOrFirstError(withUsersAndHotels(us, hs, Slice(sortByRating(MapValues(rs)),
                                                     LimitOrDefault(limit))))

\* the review createReview stores under id and returns
createReviewValue(reviewData, userId, id, now) ==
    Spread(reviewData,
           [id |-> id, userId |-> userId, createdAt |-> now, likes |-> 0, comments |-> 0])

\* encodeURIComponent on ASCII: A-Z a-z 0-9 - _ . ! ~ * ' ( ) stay, any other
\* character becomes % and its two upper-case hexadecimal digits
Unreserved == (65..90) \cup (97..122) \cup (48..57) \cup {45, 95, 46, 33, 126, 42, 39, 40, 41}

HexDigit(d) == IF d < 10 THEN 48 + d ELSE 55 + d

encodeURIComponent(s) ==
    LET E[i \in 0..Len(s)] ==
            IF i = 0 THEN <<>>
            ELSE IF s[i] \in Unreserved THEN Append(E[i - 1], s[i])
                 ELSE E[i - 1] \o <<37, HexDigit(s[i] \div 16), HexDigit(s[i] % 16)>>
    IN E[Len(s)]

\* .slice(0, 3)
TopHotelsKept == 3

\* the keys of hotelsByLocation in insertion order: each location at its first hotel
LocationsInOrder(all) ==
    LET L[i \in 0..Len(all)] ==
            IF i = 0 THEN <<>>
            ELSE IF all[i].location \in Range(L[i - 1]) THEN L[i - 1]
                 ELSE Append(L[i - 1], all[i].location)
    IN L[Len(all)]

\* hotelsByLocation, a Map<string, Hotel[]>: under each location its hotels in order
hotelsByLocationOf(all, locs) ==
    [i \in DOMAIN locs |->
        [key |-> locs[i], value |-> SelectSeq(all, LAMBDA hotel : hotel.location = locs[i])]]

hotelsByLocation(all) == hotelsByLocationOf(all, LocationsInOrder(all))

\* the first three without the sort
topHotelsUnsorted(hotelsWithReviews) == Slice(hotelsWithReviews, Num(TopHotelsKept))

\* hotelsWithReviews.sort((a, b) => b.averageRating - a.averageRating).slice(0, 3)
topHotelsOf(hotelsWithReviews) ==
    Slice(SortDescending(hotelsWithReviews,
                         [i \in DOMAIN hotelsWithReviews |-> hotelsWithReviews[i].averageRating]),
          Num(TopHotelsKept))

\* totalReviews += hotelReviews.length over the location's hotels
totalReviewsOf(hotelsWithReviews) ==
    SumOf([i \in DOMAIN hotelsWithReviews |-> hotelsWithReviews[i].reviewCount])

\* the end of a pass without the skip of a location that has no reviews
pushDestinationWithoutSkip(location, hotelsWithReviews, totalReviews) ==
    Ok(<<[name |-> location,
          reviewCount |-> totalReviews,
          imageUrl |-> <<"https://source.unsplash.com/random/400x250/?",
                         encodeURIComponent(location)>>,
          topHotels |-> topHotelsOf(hotelsWithReviews)]>>)

\* if (totalReviews === 0) continue; ... destinations.push({...}): no destination
\* (the location is skipped) or the destination pushed
pushDestination(location, hotelsWithReviews, totalReviews) ==
    IF totalReviews = 0 THEN Ok(<<>>)
    ELSE Ok(<<[name |-> location,
               reviewCount |-> totalReviews,
               imageUrl |-> <<"https://source.unsplash.com/random/400x250/?",
                              encodeURIComponent(location)>>,
               topHotels |-> topHotelsOf(hotelsWithReviews)]>>)

\* the pass once the location's hotels are hydrated, or the error that threw
destinationFrom(location, hydrated) ==
    IF ~hydrated.ok THEN hydrated
    ELSE pushDestination(location, hydrated.val, totalReviewsOf(hydrated.val))

\* one pass of the loop over hotelsByLocation.entries()
destinationOf(us, rs, location, locationHotels) ==
    destinationFrom(location, hydrateAll(us, rs, locationHotels))

destinationsOf(us, rs, byLocation) ==
    [i \in DOMAIN byLocation |->
        destinationOf(us, rs, byLocation[i].key, byLocation[i].value)]

\* what the passes pushed, in order
RECURSIVE Flatten(_)
Flatten(ss) == IF ss = <<>> THEN <<>> ELSE Flatten(SubSeq(ss, 1, Len(ss) - 1)) \o ss[Len(ss)]

\* .sort((a, b) => b.reviewCount - a.reviewCount)
sortByReviewCount(s) == SortDescending(s, [i \in DOMAIN s |-> Whole(s[i].reviewCount)])

\* destinations.sort(...).slice(0, limit), unless a pass threw
rankDestinations(pushed, limit) ==
    IF ~pushed.ok THEN pushed
    ELSE Ok(Slice(sortByReviewCount(Flatten(pushed.val)), LimitOrDefault(limit)))

getTopDestinations(us, hs, rs, limit) ==
    rankDestinations(AllOrFirstError(destinationsOf(us, rs, hotelsByLocation(MapValues(hs)))),
                     limit)

----------------------------------------------------------------------------
(* The routes: what they make of a request before they call the store *)

\* parseInt(s): an optional sign, then the decimal digits up to the first other
\* character; NaN when there is no digit
IsDigit(c) == c \in 48..57

parseInt(s) ==
    LET signed == Len(s) > 0 /\ s[1] \in {43, 45}
        first == IF signed THEN 2 ELSE 1
        last == IF \E i \in first..Len(s) : ~IsDigit(s[i])
                THEN (CHOOSE i \in first..Len(s) :
                         ~IsDigit(s[i]) /\ \A j \in first..(i - 1) : IsDigit(s[j])) - 1
                ELSE Len(s)
        V[i \in (first - 1)..last] == IF i < first THEN 0 ELSE 10 * V[i - 1] + (s[i] - 48)
    IN IF last < first THEN NaN
       ELSE Num(IF signed /\ s[1] = 45 THEN 0 - V[last] ELSE V[last])

\* req.query.limit: left out of the URL, or the string given
NoQuery == [present |-> FALSE, s |-> <<>>]

Query(s) == [present |-> TRUE, s |-> s]

RouteDefaultLimit == 10

\* req.query.limit ? parseInt(req.query.limit as string) : 10
routeLimit(q) == IF q.present /\ q.s # <<>> THEN parseInt(q.s) ELSE Num(RouteDefaultLimit)

\* insertHotelSchema.safeParse(body): the four text columns, all required
HotelColumns == {"name", "location", "latitude", "longitude"}

safeParseHotel(body) ==
    IF HotelColumns \subseteq DOMAIN body
    THEN [success |-> TRUE, data |-> <<[k \in HotelColumns |-> body[k]]>>]
    ELSE [success |-> FALSE, data |-> <<>>]

----------------------------------------------------------------------------
(* Inputs *)

UserIds == {"u1", "u2"}

\* the user who signs in and writes the reviews of Spec
Authors == {"u1"}

\* "H", "h", "G" and "P", "p"
HotelNames == {<<72>>, <<104>>, <<71>>}

Locations == {<<80>>, <<112>>}

Ratings == {1, 5}

HotelRefs == {1, 2}

\* what the callers of the store pass
UpsertData == [id : Authors, firstName : {"Ann"}]

HotelData == [name : {<<72>>}, location : Locations, latitude : {"48.8"}, longitude : {"2.3"}]

ReviewData == [hotelId : HotelRefs, rating : Ratings, comment : {"great"}, videoUrl : {"v1"}]

\* ?limit= left out, "1", "0", "-1", "x"
QueryLimits == {NoQuery, Query(<<49>>), Query(<<48>>), Query(<<45, 49>>), Query(<<120>>)}

DestinationQueryLimits == {NoQuery, Query(<<49>>), Query(<<45, 49>>)}

\* request bodies of POST /api/hotels: valid ones, and one without a location
HotelBodies ==
    [name : HotelNames, location : Locations, latitude : {"48.8"}, longitude : {"2.3"}]
        \cup {[name |-> <<72>>, latitude |-> "48.8", longitude |-> "2.3"]}

Requests == {"r1", "r2"}

----------------------------------------------------------------------------
(* State *)

Returned(op, args, ret) == [op |-> op, args |-> args, ret |-> ret]

Idle == [pc |-> "idle", data |-> <<>>, found |-> <<>>]

Init ==
    /\ users = <<>>
    /\ hotels = <<>>
    /\ reviews = <<>>
    /\ hotelIdCounter = 1
    /\ reviewIdCounter = 1
    /\ clock = 0
    /\ call = Returned("new MemStorage", <<>>, Ok(<<>>))
    /\ inflight = [r \in Requests |-> Idle]

\* time passes between two operations
Tick ==
    /\ clock < MaxClock
    /\ clock' = clock + 1
    /\ UNCHANGED <<store, call, inflight>>

----------------------------------------------------------------------------
(* MemStorage: the operations as steps *)

\* now2 is the second new Date() of the call; the first reads clock
UpsertUser(userData, now2) ==
    LET user == upsertUserValue(users, userData, clock, now2)
    IN /\ now2 >= clock
       /\ users' = MapSet(users, userData.id, user)
       /\ clock' = now2
       /\ call' = Returned("upsertUser", <<userData>>, Ok(user))
       /\ UNCHANGED <<hotels, reviews, hotelIdCounter, reviewIdCounter, inflight>>

CreateHotel(hotelData) ==
    LET id == hotelIdCounter
        hotel == createHotelValue(hotelData, id, clock)
    IN /\ hotelIdCounter' = hotelIdCounter + 1
       /\ hotels' = MapSet(hotels, id, hotel)
       /\ call' = Returned("createHotel", <<hotelData>>, Ok(hotel))
       /\ UNCHANGED <<users, reviews, reviewIdCounter, clock, inflight>>

\* createReview drawing its id from the hotels' counter
CreateReviewOnHotelCounter(reviewData, userId) ==
    LET id == hotelIdCounter
        review == createReviewValue(reviewData, userId, id, clock)
    IN /\ hotelIdCounter' = hotelIdCounter + 1
       /\ reviews' = MapSet(reviews, id, review)
       /\ call' = Returned("createReview", <<reviewData, userId>>, Ok(review))
       /\ UNCHANGED <<users, hotels, reviewIdCounter, clock, inflight>>

CreateReview(reviewData, userId) ==
    LET id == reviewIdCounter
        review == createReviewValue(reviewData, userId, id, clock)
    IN /\ reviewIdCounter' = reviewIdCounter + 1
       /\ reviews' = MapSet(reviews, id, review)
       /\ call' = Returned("createReview", <<reviewData, userId>>, Ok(review))
       /\ UNCHANGED <<users, hotels, hotelIdCounter, clock, inflight>>

\* a read: nothing but the caller's result changes
Read(op, args, ret) ==
    /\ call' = Returned(op, args, ret)
    /\ UNCHANGED <<store, clock, inflight>>

GetUser(id) == Read("getUser", <<id>>, Ok(getUser(users, id)))

GetHotels == Read("getHotels", <<>>, Ok(getHotels(hotels)))

GetHotel(id) == Read("getHotel", <<id>>, Ok(getHotel(hotels, id)))

GetHotelByName(name, location) ==
    Read("getHotelByName", <<name, location>>, Ok(getHotelByName(hotels, name, location)))

GetReviews == Read("getReviews", <<>>, Ok(getReviews(reviews)))

GetReviewsByHotel(hotelId) ==
    Read("getReviewsByHotel", <<hotelId>>, getReviewsByHotel(users, reviews, hotelId))

GetHotelsWithReviews ==
    Read("getHotelsWithReviews", <<>>, getHotelsWithReviews(users, hotels, reviews))

GetHotelWithReviews(id) ==
    Read("getHotelWithReviews", <<id>>, getHotelWithReviews(users, hotels, reviews, id))

\* getTopReviews sorting the stored reviews themselves instead of a copy
GetTopReviewsSortingStore(q) ==
    /\ reviews' = SortDescending(reviews, [i \in DOMAIN reviews |-> Whole(reviews[i].value.rating)])
    /\ call' = Returned("getTopReviews", <<routeLimit(q)>>,
                        getTopReviews(users, hotels, reviews, routeLimit(q)))
    /\ UNCHANGED <<users, hotels, hotelIdCounter, reviewIdCounter, clock, inflight>>

\* GET /api/reviews/top?limit=q
GetTopReviews(q) ==
    Read("getTopReviews", <<routeLimit(q)>>, getTopReviews(users, hotels, reviews, routeLimit(q)))

\* GET /api/destinations/top?limit=q
GetTopDestinations(q) ==
    Read("getTopDestinations", <<routeLimit(q)>>,
         getTopDestinations(users, hotels, reviews, routeLimit(q)))

Next ==
    \/ \E userData \in UpsertData : UpsertUser(userData, clock)
    \/ /\ Len(hotels) < MaxHotels
       /\ Len(hotels) + Len(reviews) < MaxEntities
       /\ \E hotelData \in HotelData : CreateHotel(hotelData)
    \/ /\ Len(reviews) < MaxReviews
       /\ Len(hotels) + Len(reviews) < MaxEntities
       /\ \E reviewData \in ReviewData, userId \in Authors : CreateReview(reviewData, userId)
    \/ \E id \in UserIds : GetUser(id)
    \/ GetHotels
    \/ \E id \in HotelRefs : GetHotel(id)
    \/ \E hotelData \in HotelData : GetHotelByName(hotelData.name, hotelData.location)
    \/ GetReviews
    \/ \E id \in HotelRefs : GetReviewsByHotel(id)
    \/ GetHotelsWithReviews
    \/ \E id \in HotelRefs : GetHotelWithReviews(id)
    \/ \E q \in QueryLimits : GetTopReviews(q)
    \/ \E q \in DestinationQueryLimits : GetTopDestinations(q)

Spec == Init /\ [][Next]_vars

----------------------------------------------------------------------------
(* The user store under a running clock: upserts of both users, with       *)
(* payloads that carry dates of their own                                  *)

\* what a client could send as its own createdAt / updatedAt
ForgedDates == {9}

ProfileData ==
    [id : UserIds, firstName : {"Ann"}]
        \cup [id : UserIds, firstName : {"Bob"}, createdAt : ForgedDates, updatedAt : ForgedDates]

NextUsers ==
    \/ Tick
    \/ \E userData \in ProfileData, now2 \in clock..Min(clock + 1, MaxClock) :
          UpsertUser(userData, now2)
    \/ \E id \in UserIds : GetUser(id)
    \/ /\ hotels = <<>>
       /\ CreateHotel([name |-> <<72>>, location |-> <<80>>, latitude |-> "48.8", longitude |-> "2.3"])
    \/ /\ reviews = <<>>
       /\ CreateReview([hotelId |-> 1, rating |-> 5, comment |-> "great", videoUrl |-> "v1"], "u1")

SpecUsers == Init /\ [][NextUsers]_vars

----------------------------------------------------------------------------
(* POST /api/hotels.  The handler runs up to each await and is resumed     *)
(* later: validation and getHotelByName, then the answer or createHotel,   *)
(* then the answer 201.                                                    *)

Response(request, data, status, body) ==
    Returned("POST /api/hotels", <<request, data>>,
             [ok |-> TRUE, status |-> status, body |-> body])

PostHotelLookup(r, body) ==
    LET validation == safeParseHotel(body)
    IN /\ inflight[r].pc = "idle"
       /\ IF ~validation.success
          THEN /\ call' = Response(r, <<>>, 400, <<>>)
               /\ UNCHANGED inflight
          ELSE /\ inflight' = [inflight EXCEPT ![r] =
                     [pc |-> "looked up",
                      data |-> validation.data,
                      found |-> getHotelByName(hotels, validation.data[1].name,
                                               validation.data[1].location)]]
               /\ UNCHANGED call
       /\ UNCHANGED <<store, clock>>

PostHotelCreate(r) ==
    LET existingHotel == inflight[r].found
        id == hotelIdCounter
        hotel == createHotelValue(inflight[r].data[1], id, clock)
    IN /\ inflight[r].pc = "looked up"
       /\ IF existingHotel # <<>>
          THEN /\ call' = Response(r, inflight[r].data, 200, existingHotel)
               /\ inflight' = [inflight EXCEPT ![r] = Idle]
               /\ UNCHANGED <<hotels, hotelIdCounter>>
          ELSE /\ hotelIdCounter' = hotelIdCounter + 1
               /\ hotels' = MapSet(hotels, id, hotel)
               /\ inflight' = [inflight EXCEPT ![r] =
                     [pc |-> "created", data |-> inflight[r].data, found |-> <<hotel>>]]
               /\ UNCHANGED call
       /\ UNCHANGED <<users, reviews, reviewIdCounter, clock>>

PostHotelRespond(r) ==
    /\ inflight[r].pc = "created"
    /\ call' = Response(r, inflight[r].data, 201, inflight[r].found)
    /\ inflight' = [inflight EXCEPT ![r] = Idle]
    /\ UNCHANGED <<store, clock>>

\* requests one after another: a request starts when no other is under way
NextSeq ==
    \/ Tick
    \/ \E r \in Requests, body \in HotelBodies :
          /\ \A other \in Requests : inflight[other].pc = "idle"
          /\ PostHotelLookup(r, body)
    \/ \E r \in Requests : PostHotelCreate(r)
    \/ \E r \in Requests : PostHotelRespond(r)

SpecSeq == Init /\ [][NextSeq]_vars

\* concurrent requests: the steps of different requests in any order
NextConc ==
    \/ \E r \in Requests, body \in HotelBodies : PostHotelLookup(r, body)
    \/ \E r \in Requests : PostHotelCreate(r)
    \/ \E r \in Requests : PostHotelRespond(r)

SpecConc == Init /\ [][NextConc]_vars

----------------------------------------------------------------------------
(* What the claims speak of, said without the code's own operators *)

\* the stored reviews of a hotel id, as indexes into the reviews map
ReviewsOf(hotelId) == {i \in DOMAIN reviews : reviews[i].value.hotelId = hotelId}

RECURSIVE RatingSum(_)
RatingSum(S) ==
    IF S = {} THEN 0
    ELSE LET i == CHOOSE x \in S : TRUE IN reviews[i].value.rating + RatingSum(S \ {i})

StoredHotelIds == {hotels[i].value.id : i \in DOMAIN hotels}

HotelsAt(location) == {hotels[i].value.id : i \in {j \in DOMAIN hotels : hotels[j].value.location = location}}

ReviewsAt(location) == UNION {ReviewsOf(id) : id \in HotelsAt(location)}

Abs(x) == IF x < 0 THEN 0 - x ELSE x

\* a / b > c / d for positive b and d
RatioGreater(a, b, c, d) == a * d > c * b

----------------------------------------------------------------------------
\* C3: the k-th createHotel returns id k and the k-th createReview returns id k;
\* the two counters are independent and start at 1; the stored hotels, and the
\* stored reviews, have distinct positive ids that increase in creation order,
\* and each is kept under the key equal to its own id.
IdsMonotonic ==
    /\ hotelIdCounter = Len(hotels) + 1
    /\ reviewIdCounter = Len(reviews) + 1
    /\ \A k \in DOMAIN hotels : hotels[k].key = k /\ hotels[k].value.id = k
    /\ \A k \in DOMAIN reviews : reviews[k].key = k /\ reviews[k].value.id = k
    /\ call.op = "createHotel" => call.ret.val.id = Len(hotels)
    /\ call.op = "createReview" => call.ret.val.id = Len(reviews)

IdsMonotonicWitness ==
    /\ Len(hotels) = 3
    /\ Len(reviews) = 2
    /\ call.op = "createReview"
    /\ call.ret.val.id = 2

----------------------------------------------------------------------------
\* the hydrated hotel records the last call returned
HydratedHotels ==
    IF call.op \in {"getHotelWithReviews", "getHotelsWithReviews"} /\ call.ret.ok
    THEN Range(call.ret.val)
    ELSE {}

\* getHotelWithReviews of a stored hotel returns its record, getHotelsWithReviews
\* the records of the stored hotels in their order
ReturnsEveryHotel ==
    /\ (call.op = "getHotelWithReviews" /\ call.ret.ok /\ call.args[1] \in StoredHotelIds)
          => (Len(call.ret.val) = 1 /\ call.ret.val[1].id = call.args[1])
    /\ (call.op = "getHotelsWithReviews" /\ call.ret.ok)
          => /\ Len(call.ret.val) = Len(hotels)
             /\ \A i \in DOMAIN hotels : call.ret.val[i].id = hotels[i].value.id

CountsItsReviews(h) == h.reviewCount = Cardinality(ReviewsOf(h.id))

RECURSIVE IsPowerOfTwo(_)
IsPowerOfTwo(n) == n = 1 \/ (n > 1 /\ n % 2 = 0 /\ IsPowerOfTwo(n \div 2))

\* averageRating * reviewCount = sum of the ratings, in exact arithmetic
ExactMean(h) ==
    LET n == Cardinality(ReviewsOf(h.id))
        s == RatingSum(ReviewsOf(h.id))
    IN IF n = 0 THEN h.averageRating.num = 0 /\ h.averageRating.err = 0
       ELSE h.averageRating.num * n = s * h.averageRating.den /\ h.averageRating.err = 0

\* averageRating is the double nearest to sum / reviewCount: exact when the mean in
\* lowest terms has a power of two as denominator, otherwise off by less than half
\* a unit of the last of its 53 bits
RoundedMean(h) ==
    LET n == Cardinality(ReviewsOf(h.id))
        s == RatingSum(ReviewsOf(h.id))
        avg == h.averageRating
    IN IF n = 0 THEN avg.num = 0 /\ avg.err = 0
       ELSE /\ avg.num * n = s * avg.den
            /\ 2 * Abs(avg.err) < avg.den
            /\ (avg.err = 0) <=> IsPowerOfTwo(avg.den)

\* C4 as claimed: each returned hotel record has reviewCount equal to the number of
\* stored reviews of that hotel, averageRating 0 without reviews, and otherwise
\* averageRating equal to the exact arithmetic mean of their ratings.
AverageIsExactMean ==
    /\ ReturnsEveryHotel
    /\ \A h \in HydratedHotels : CountsItsReviews(h) /\ ExactMean(h)

\* C4 as amended: reviewCount and the 0 of a hotel without reviews as claimed;
\* otherwise averageRating is sum / reviewCount as a double, the mean rounded to
\* the nearest double, which is the mean itself only when that is representable.
AverageIsRoundedMean ==
    /\ ReturnsEveryHotel
    /\ \A h \in HydratedHotels : CountsItsReviews(h) /\ RoundedMean(h)

AverageIsRoundedMeanWitness ==
    /\ call.op = "getHotelWithReviews"
    /\ call.ret.ok
    /\ call.ret.val # <<>>
    /\ call.ret.val[1].reviewCount = 3
    /\ call.ret.val[1].averageRating.err # 0

----------------------------------------------------------------------------
\* the destinations the last call returned
Destinations ==
    IF call.op = "getTopDestinations" /\ call.ret.ok THEN call.ret.val ELSE <<>>

MeanNum(id) == RatingSum(ReviewsOf(id))

MeanDen(id) == Max(Cardinality(ReviewsOf(id)), 1)

\* C6: the destinations are in non-increasing order of reviewCount; topHotels has
\* at most 3 hotels, all of the destination's location, in non-increasing order of
\* averageRating, and no hotel of the location left out of it has a strictly
\* higher averageRating than one in it.
DestinationsOrdered ==
    /\ \A i, j \in DOMAIN Destinations :
          i < j => Destinations[i].reviewCount >= Destinations[j].reviewCount
    /\ \A i \in DOMAIN Destinations :
          LET d == Destinations[i]
              top == d.topHotels
              kept == {top[k].id : k \in DOMAIN top}
          IN /\ Len(top) <= 3
             /\ \A k \in DOMAIN top : top[k].location = d.name /\ top[k].id \in HotelsAt(d.name)
             /\ \A a, b \in DOMAIN top :
                   a < b => ~RatioGreater(top[b].averageRating.num, top[b].averageRating.den,
                                          top[a].averageRating.num, top[a].averageRating.den)
             /\ \A id \in HotelsAt(d.name) \ kept : \A k \in DOMAIN top :
                   ~RatioGreater(MeanNum(id), MeanDen(id),
                                 top[k].averageRating.num, top[k].averageRating.den)

DestinationsOrderedWitness ==
    \E i \in DOMAIN Destinations :
        /\ Len(Destinations[i].topHotels) = 3
        /\ Cardinality(HotelsAt(Destinations[i].name)) = 4
        /\ Destinations[i].topHotels[1].id = 2

\* two destinations returned in the other order than their locations were first stored
DestinationsReordered ==
    /\ Len(Destinations) = 2
    /\ Destinations[1].reviewCount > Destinations[2].reviewCount
    /\ Destinations[1].name = hotels[2].value.location
    /\ Destinations[2].name = hotels[1].value.location

----------------------------------------------------------------------------
\* a stored review whose user, or whose hotel, is not stored
UserMissing(i) == \A j \in DOMAIN users : users[j].key # reviews[i].value.userId

HotelMissing(i) == reviews[i].value.hotelId \notin StoredHotelIds

NoDanglingReference == \A i \in DOMAIN reviews : ~UserMissing(i) /\ ~HotelMissing(i)

\* how many stored reviews come before review i by rating, the earlier first among equals
Rank(i) ==
    Cardinality({j \in DOMAIN reviews :
                    \/ reviews[j].value.rating > reviews[i].value.rating
                    \/ reviews[j].value.rating = reviews[i].value.rating /\ j < i})

\* C7: on a store without dangling references and for every integer limit, zero
\* and negative ones included, getTopReviews returns at most limit items (so none
\* for a limit of zero or less), in non-increasing order of rating, none rated strictly lower than a stored review
\* left out, each with the stored user of its userId and the stored hotel of its
\* hotelId.
TopReviewsAtMostLimit ==
    (call.op = "getTopReviews" /\ call.args[1].kind = "int" /\ NoDanglingReference)
        => /\ call.ret.ok
           /\ Len(call.ret.val) <= Max(call.args[1].v, 0)
           /\ \A a, b \in DOMAIN call.ret.val :
                 a < b => call.ret.val[a].rating >= call.ret.val[b].rating
           /\ \A a \in DOMAIN call.ret.val : \A i \in DOMAIN reviews :
                 (\A b \in DOMAIN call.ret.val : call.ret.val[b].id # reviews[i].value.id)
                     => call.ret.val[a].rating >= reviews[i].value.rating
           /\ \A a \in DOMAIN call.ret.val :
                 /\ \E j \in DOMAIN users :
                       /\ users[j].key = call.ret.val[a].userId
                       /\ users[j].value = call.ret.val[a].user
                 /\ \E j \in DOMAIN hotels :
                       /\ hotels[j].value.id = call.ret.val[a].hotelId
                       /\ hotels[j].value = call.ret.val[a].hotel

----------------------------------------------------------------------------
\* some stored review of the hotel has no stored user
UserMissingAt(hotelId) == \E i \in ReviewsOf(hotelId) : UserMissing(i)

\* the number of items slice(0, limit) keeps of n
Kept(n, limit) ==
    IF limit.kind = "NaN" THEN 0
    ELSE IF limit.v < 0 THEN Max(n + limit.v, 0)
    ELSE Min(limit.v, n)

\* the operation of the step fails wherever it has to hydrate a review whose
\* referent is missing
MustFail ==
    \/ call'.op = "getReviewsByHotel" /\ UserMissingAt(call'.args[1])
    \/ /\ call'.op = "getHotelWithReviews"
       /\ call'.args[1] \in StoredHotelIds
       /\ UserMissingAt(call'.args[1])
    \/ /\ call'.op \in {"getHotelsWithReviews", "getTopDestinations"}
       /\ \E id \in StoredHotelIds : UserMissingAt(id)
    \/ /\ call'.op = "getTopReviews"
       /\ \E i \in DOMAIN reviews :
             /\ Rank(i) < Kept(Len(reviews), call'.args[1])
             /\ UserMissing(i) \/ HotelMissing(i)

\* C8: createReview stores the review whether or not its user and hotel are
\* stored; from then on every aggregation that hydrates a review whose referent is
\* missing fails with an error instead of a result without the review, and leaves
\* the store unchanged.
MissingReferentIsFatal ==
    [][/\ call'.op = "createReview" =>
             /\ call'.ret.ok
             /\ reviews' = Append(reviews, [key |-> reviewIdCounter, value |-> call'.ret.val])
             /\ call'.ret.val.userId = call'.args[2]
             /\ call'.ret.val.hotelId = call'.args[1].hotelId
       /\ MustFail => (~call'.ret.ok /\ store' = store)]_vars

MissingReferentIsFatalWitness ==
    /\ call.op = "getTopDestinations"
    /\ ~call.ret.ok
    /\ call.ret.error = "User not found"
    /\ Len(hotels) = 2
    /\ Len(reviews) = 2

\* getTopReviews failing for a missing hotel
MissingHotelIsFatal ==
    /\ call.op = "getTopReviews"
    /\ ~call.ret.ok
    /\ call.ret.error = "Hotel not found"

----------------------------------------------------------------------------
ReadOperations ==
    {"getUser", "getHotels", "getHotel", "getHotelByName", "getReviews", "getReviewsByHotel",
     "getHotelsWithReviews", "getHotelWithReviews", "getTopReviews", "getTopDestinations"}

\* what the read c (operation and arguments) returns on the store as it is
ReadResult(c) ==
    CASE c.op = "getUser" -> Ok(getUser(users, c.args[1]))
      [] c.op = "getHotels" -> Ok(getHotels(hotels))
      [] c.op = "getHotel" -> Ok(getHotel(hotels, c.args[1]))
      [] c.op = "getHotelByName" -> Ok(getHotelByName(hotels, c.args[1], c.args[2]))
      [] c.op = "getReviews" -> Ok(getReviews(reviews))
      [] c.op = "getReviewsByHotel" -> getReviewsByHotel(users, reviews, c.args[1])
      [] c.op = "getHotelsWithReviews" -> getHotelsWithReviews(users, hotels, reviews)
      [] c.op = "getHotelWithReviews" -> getHotelWithReviews(users, hotels, reviews, c.args[1])
      [] c.op = "getTopReviews" -> getTopReviews(users, hotels, reviews, c.args[1])
      [] c.op = "getTopDestinations" -> getTopDestinations(users, hotels, reviews, c.args[1])

\* C10: a read, whether it succeeds or fails, changes neither the three maps
\* (contents and order) nor the two id counters: the store after it is the store
\* before it, on which the same read gives the result it gave.
ReadsChangeNothing ==
    [][call'.op \in ReadOperations => (store' = store /\ call'.ret = ReadResult(call'))]_vars

ReadsChangeNothingWitness ==
    /\ call.op = "getReviewsByHotel"
    /\ ~call.ret.ok
    /\ Len(reviews) = 3
    /\ Len(hotels) = 2

\* a read that succeeded on a store with users, hotels and reviews
ReadSucceeded ==
    /\ call.op = "getTopReviews"
    /\ call.ret.ok
    /\ Len(call.ret.val) = 2
    /\ Len(reviews) = 3

----------------------------------------------------------------------------
\* the stored user of an id; the step is an upsertUser call (time alone passing
\* leaves the users as they are and moves the clock)
StoredUser(us, id) == us[CHOOSE j \in DOMAIN us : us[j].key = id].value

IsStored(us, id) == \E j \in DOMAIN us : us[j].key = id

UpsertStep == call'.op = "upsertUser" /\ (users' # users \/ clock' = clock)

\* C9: the stored user of an id has the createdAt of the first upsert of the id,
\* whatever dates later payloads carry, and the updatedAt of the most recent one;
\* there is one user per id, and an upsert of an id changes no other user, no
\* hotel, no review and no id counter.
UpsertKeepsCreatedAt ==
    [][/\ \A id \in UserIds :
             /\ IsStored(users, id) =>
                   /\ IsStored(users', id)
                   /\ StoredUser(users', id).createdAt = StoredUser(users, id).createdAt
             /\ (~IsStored(users, id) /\ IsStored(users', id)) =>
                   /\ UpsertStep
                   /\ call'.args[1].id = id
                   /\ StoredUser(users', id).createdAt = clock
             /\ Cardinality({j \in DOMAIN users' : users'[j].key = id}) <= 1
       /\ UpsertStep =>
             /\ IsStored(users', call'.args[1].id)
             /\ StoredUser(users', call'.args[1].id).updatedAt = clock'
             /\ StoredUser(users', call'.args[1].id).firstName = call'.args[1].firstName
             /\ call'.ret.val = StoredUser(users', call'.args[1].id)
             /\ \A other \in UserIds \ {call'.args[1].id} :
                   /\ IsStored(users', other) <=> IsStored(users, other)
                   /\ IsStored(users, other) => StoredUser(users', other) = StoredUser(users, other)
             /\ UNCHANGED <<hotels, reviews, hotelIdCounter, reviewIdCounter>>
       /\ ~UpsertStep => users' = users]_vars

\* a user upserted again, later, with a payload that carries its own dates, beside
\* another user, a hotel and a review
UpsertKeepsCreatedAtWitness ==
    /\ call.op = "upsertUser"
    /\ "createdAt" \in DOMAIN call.args[1]
    /\ call.ret.val.createdAt = 0
    /\ call.ret.val.updatedAt = 2
    /\ Len(users) = 2
    /\ Len(hotels) = 1
    /\ Len(reviews) = 1

----------------------------------------------------------------------------
\* equal but for the case of letters
EqualIgnoringCase(a, b) ==
    /\ Len(a) = Len(b)
    /\ \A i \in DOMAIN a :
          \/ a[i] = b[i]
          \/ a[i] \in 65..90 /\ b[i] = a[i] + 32
          \/ a[i] \in 97..122 /\ b[i] = a[i] - 32

SameHotel(a, b) == EqualIgnoringCase(a.name, b.name) /\ EqualIgnoringCase(a.location, b.location)

\* the stored hotels equal to the data in name and location, as indexes
StoredLike(data) == {i \in DOMAIN hotels : SameHotel(hotels[i].value, data)}

\* request r goes on after its getHotelByName
Resumes(r) == inflight[r].pc = "looked up" /\ inflight'[r].pc # "looked up"

\* C1: with requests one after another, a request whose name and location equal
\* those of a stored hotel but for case is answered with that stored hotel and its
\* original id, adds no hotel and does not advance the hotel id counter.
CreationIsIdempotent ==
    [][\A r \in Requests :
          (Resumes(r) /\ StoredLike(inflight[r].data[1]) # {}) =>
              /\ hotels' = hotels
              /\ hotelIdCounter' = hotelIdCounter
              /\ inflight'[r].pc = "idle"
              /\ call'.ret.status = 200
              /\ \E i \in StoredLike(inflight[r].data[1]) :
                    /\ call'.ret.body = <<hotels[i].value>>
                    /\ call'.ret.body[1].id = hotels[i].key]_vars

\* a request answered with a stored hotel whose name is in another case
CreationIsIdempotentWitness ==
    /\ call.op = "POST /api/hotels"
    /\ call.ret.status = 200
    /\ call.args[2][1].name # call.ret.body[1].name
    /\ call.args[2][1].location # call.ret.body[1].location
    /\ Len(hotels) = 2
    /\ call.ret.body[1].id = 1

\* C2 as claimed: concurrent requests never leave two stored hotels equal in name
\* and location but for case.
NoDuplicateHotels ==
    \A i, j \in DOMAIN hotels : i # j => ~SameHotel(hotels[i].value, hotels[j].value)

\* C2 as amended: of the hotels equal in name and location but for case, the store
\* never holds more than there are requests running concurrently (so one, when the
\* requests run one after another).
DuplicatesBoundedByRequests ==
    \A i \in DOMAIN hotels :
        Cardinality({j \in DOMAIN hotels : SameHotel(hotels[i].value, hotels[j].value)})
            <= Cardinality(Requests)

\* two requests that both looked up before either created: the hotel is stored twice
DuplicatesBoundedByRequestsWitness ==
    /\ \E i, j \in DOMAIN hotels : i < j /\ SameHotel(hotels[i].value, hotels[j].value)
    /\ \A r \in Requests : inflight[r].pc = "idle"
    /\ call.op = "POST /api/hotels"
    /\ call.ret.status = 201

====
